---- MODULE Spec2Model ----
(***************************************************************************)
(* Model of the ipfs-cluster Adder (adder/adder.go): a single-use          *)
(* orchestrator that drives the ipfsadd builder over a files.File source   *)
(* and hands the resulting root to a ClusterDAGService.                    *)
(*                                                                         *)
(* Every caller of FromFiles is a thread with a program counter; one step  *)
(* of the model is one statement of FromFiles / setContext / addFile, or   *)
(* one step of the environment (token cancellation, queue consumers).      *)
(***************************************************************************)
EXTENDS Integers, Sequences, FiniteSets, TLC

\* ------------------------------------------------------------------ bounds
\* Capacity of the internally created output channel.  The source uses 100
\* (adder.go:58); the model scales it down and keeps MaxFiles above it so
\* that a run can fill the channel.
OutputCap == 2
\* Capacity of a channel supplied by the caller of New.
CallerCap == 1
\* Largest number of items a File Source holds.
MaxFiles == OutputCap + 1
\* Largest number of FromFiles calls one thread makes on the instance.
MaxCalls == 2

\* The same two bounds for the threads of the concurrent specification.
MaxConcFiles == 1
MaxConcCalls == 1

\* ------------------------------------------------------------- value sets
Threads == {1, 2}
SeqThreads == {1}

NilErr == "nil"
NilRoot == "nil"
Canceled == "context.Canceled"
DeadlineExceeded == "context.DeadlineExceeded"
EOF == "io.EOF"
CancelKinds == {Canceled, DeadlineExceeded}

RawRoots == {"rawA", "rawB"}
ClusterRoots == {"clusterA", "clusterB"}

\* params.HashFun values tried: a registered name, the same name in upper
\* case, and an unregistered name.
HashFunInputs == {<<"s", "h", "a", "1">>, <<"S", "H", "A", "1">>, <<"s", "h", "a", "9">>}
CidVersionInputs == {0, 1, 2}

\* ------------------------------------------------------------------ state
VARIABLES
    params,     \* a.params: [HashFun, CidVersion, Progress]
    outGiven,   \* TRUE iff New was given a non-nil out channel
    a_ctx,      \* a.ctx: 0 is nil, otherwise the id of a derived context
    a_cancel,   \* a.cancel: 0 is nil, otherwise cancels that context
    ctxErr,     \* ctxErr[c]: Err() of derived context c
    ctxParent,  \* ctxParent[c]: the call whose ctx argument c derives from
    output,     \* a.output: [buf, closed, cap]
    consumer,   \* the draining goroutine of New: "none", "running", "done"
    panicked,   \* "none", or the runtime panic that ended the program
    pc,         \* pc[t]: position of thread t in FromFiles
    callNo,     \* callNo[t]: number of FromFiles calls thread t has started
    tok,        \* tok[t]: Err() of the ctx argument of t's current call
    src,        \* src[t]: the files.File argument: [len, pos]
    cur,        \* cur[t]: the file returned by the last NextFile
    ipfsAdder,  \* ipfsAdder[t]: the builder of t's current call
    dcancel,    \* dcancel[t]: the a.cancel value captured by the defer
    adderRoot,  \* adderRoot[t]: root returned by ipfsAdder.Finalize
    ret,        \* ret[t]: [root, err] of t's current call
    calls,      \* calls[t]: collaborator calls made by t's current call
    sent,       \* history: every event placed on a.output, in order
    atCancel    \* history: where the run stood when a.ctx became cancelled

vars == <<params, outGiven, a_ctx, a_cancel, ctxErr, ctxParent, output, consumer, panicked,
          pc, callNo, tok, src, cur, ipfsAdder, dcancel, adderRoot, ret, calls,
          sent, atCancel>>

NoCalls == [newAdder |-> 0, nextFile |-> 0, addFile |-> 0, bFinalize |-> 0,
            cFinalize |-> 0, cFinalizeArg |-> NilRoot, cFinalizeRet |-> NilRoot,
            eofFrom |-> "none", failed |-> NilErr, guard |-> "none",
            log |-> <<>>, answers |-> <<>>]

NoAdder == [made |-> FALSE, ctx |-> 0, Out |-> FALSE, Progress |-> FALSE,
            CidBuilder |-> <<>>, added |-> <<>>]

NoRet == [root |-> NilRoot, err |-> NilErr]

NoCancel == [inFlight |-> FALSE, call |-> 0]

\* ---------------------------------------------------------------- helpers
ToLowerChar(c) ==
    CASE c = "S" -> "s"
      [] c = "H" -> "h"
      [] c = "A" -> "a"
      [] OTHER -> c

\* strings.ToLower
ToLower(s) == [i \in 1..Len(s) |-> ToLowerChar(s[i])]

\* multihash.Names: lower-case name -> code
Names == (<<"s", "h", "a", "1">> :> 17) @@ (<<"i", "d">> :> 0)

\* merkledag.PrefixForCidVersion
PrefixForCidVersionOk(v) == v \in {0, 1}

\* a.ctx.Err() as thread t reads it
CtxErrNow == IF a_ctx = 0 THEN NilErr ELSE ctxErr[a_ctx]

\* ------------------------------------------------------------------- New
\* variant: New never starts the draining goroutine
SpawnsConsumer_Never(given) == FALSE

\* variant: New starts the draining goroutine on a caller's channel too
SpawnsConsumer_Always(given) == TRUE

\* New starts the draining goroutine only when no channel is supplied.
SpawnsConsumer(given) == ~given

\* make(chan *api.AddedOutput, 100) when out == nil, else the caller's channel
NewOutput(given) ==
    [buf |-> <<>>, closed |-> FALSE, cap |-> IF given THEN CallerCap ELSE OutputCap]

Init ==
    /\ params \in [HashFun : HashFunInputs, CidVersion : CidVersionInputs,
                   Progress : BOOLEAN]
    /\ outGiven \in BOOLEAN
    /\ a_ctx = 0
    /\ a_cancel = 0
    /\ ctxErr = [c \in Threads |-> NilErr]
    /\ ctxParent = [c \in Threads |-> 0]
    /\ output = NewOutput(outGiven)
    /\ consumer = IF SpawnsConsumer(outGiven) THEN "running" ELSE "none"
    /\ panicked = "none"
    /\ pc = [t \in Threads |-> "idle"]
    /\ callNo = [t \in Threads |-> 0]
    /\ tok = [t \in Threads |-> NilErr]
    /\ src = [t \in Threads |-> [len |-> 0, pos |-> 0]]
    /\ cur = [t \in Threads |-> 0]
    /\ ipfsAdder = [t \in Threads |-> NoAdder]
    /\ dcancel = [t \in Threads |-> 0]
    /\ adderRoot = [t \in Threads |-> NilRoot]
    /\ ret = [t \in Threads |-> NoRet]
    /\ calls = [t \in Threads |-> NoCalls]
    /\ sent = <<>>
    /\ atCancel = [c \in Threads |-> NoCancel]

\* --------------------------------------------------------- shared pieces
Called(t, f) == [calls EXCEPT ![t][f] = @ + 1, ![t].log = Append(@, f)]

\* history: `from` answered t's call in progress with v; c is calls with this
\* step's call counted
Answered(c, t, from, v) == [c EXCEPT ![t].answers = Append(@, <<from, v>>)]

\* positions between an iteration's cancellation check and the next one, or
\* the return: the check of line 136 is behind, nothing reads a.ctx.Done()
InFlight == {"NextFile", "AddFile", "AddFile.send", "AddFile.return",
             "ipfsAdder.Finalize", "dgs.Finalize"}

\* where the thread that derived context c stands when c becomes cancelled
CancelMark(c) ==
    [inFlight |-> pc[c] \in InFlight, call |-> callNo[c]]

\* variant: lines 103-104 are missing, a return runs no defer
Return_NoDefers(t, root, err) ==
    /\ ret' = [ret EXCEPT ![t] = [root |-> root, err |-> err]]
    /\ pc' = [pc EXCEPT ![t] = "returned"]

\* `return root, err` after the defers of lines 103-104 are registered
Return(t, root, err) ==
    /\ ret' = [ret EXCEPT ![t] = [root |-> root, err |-> err]]
    /\ pc' = [pc EXCEPT ![t] = "defer.close"]

Panic(why) ==
    /\ panicked' = why
    /\ UNCHANGED <<params, outGiven, a_ctx, a_cancel, ctxErr, ctxParent, output,
                   consumer, pc, callNo, tok, src, cur, ipfsAdder, dcancel,
                   adderRoot, ret, calls, sent, atCancel>>

InCall(t) == pc[t] \notin {"idle", "returned"}

\* ------------------------------------------------------------ environment
\* A caller invokes FromFiles(ctx, f) with a live ctx and a source of n items.
StartCall(t) ==
    /\ panicked = "none"
    /\ ~InCall(t)
    /\ callNo[t] < MaxCalls
    /\ \E n \in 0..MaxFiles : src' = [src EXCEPT ![t] = [len |-> n, pos |-> 0]]
    /\ callNo' = [callNo EXCEPT ![t] = @ + 1]
    /\ pc' = [pc EXCEPT ![t] = "setContext"]
    /\ tok' = [tok EXCEPT ![t] = NilErr]
    /\ cur' = [cur EXCEPT ![t] = 0]
    /\ ipfsAdder' = [ipfsAdder EXCEPT ![t] = NoAdder]
    /\ dcancel' = [dcancel EXCEPT ![t] = 0]
    /\ adderRoot' = [adderRoot EXCEPT ![t] = NilRoot]
    /\ ret' = [ret EXCEPT ![t] = NoRet]
    /\ calls' = [calls EXCEPT ![t] = NoCalls]
    /\ UNCHANGED <<params, outGiven, a_ctx, a_cancel, ctxErr, ctxParent, output,
                   consumer, panicked, sent, atCancel>>

\* The ctx argument of t's call in progress is cancelled by its owner or times
\* out; a context derived from it is cancelled with the same error.
CancelToken(t) ==
    /\ panicked = "none"
    /\ InCall(t)
    /\ tok[t] = NilErr
    /\ \E e \in CancelKinds :
         /\ tok' = [tok EXCEPT ![t] = e]
         /\ IF ctxParent[t] = callNo[t] /\ ctxErr[t] = NilErr
               THEN /\ ctxErr' = [ctxErr EXCEPT ![t] = e]
                    /\ atCancel' = [atCancel EXCEPT ![t] = CancelMark(t)]
               ELSE UNCHANGED <<ctxErr, atCancel>>
    /\ UNCHANGED <<params, outGiven, a_ctx, a_cancel, ctxParent, output, consumer,
                   panicked, pc, callNo, src, cur, ipfsAdder, dcancel, adderRoot,
                   ret, calls, sent>>

\* `for range out {}` of New: discard an event, or end once out is closed
\* and empty.
ConsumerRecv ==
    /\ panicked = "none"
    /\ consumer = "running"
    /\ Len(output.buf) > 0 \/ output.closed
    /\ IF Len(output.buf) > 0
          THEN /\ output' = [output EXCEPT !.buf = Tail(@)]
               /\ UNCHANGED consumer
          ELSE /\ consumer' = "done"
               /\ UNCHANGED output
    /\ UNCHANGED <<params, outGiven, a_ctx, a_cancel, ctxErr, ctxParent, panicked,
                   pc, callNo, tok, src, cur, ipfsAdder, dcancel, adderRoot, ret,
                   calls, sent, atCancel>>

\* The listener on a caller-supplied channel receives one event.
ListenerRecv ==
    /\ panicked = "none"
    /\ outGiven
    /\ Len(output.buf) > 0
    /\ output' = [output EXCEPT !.buf = Tail(@)]
    /\ UNCHANGED <<params, outGiven, a_ctx, a_cancel, ctxErr, ctxParent, consumer,
                   panicked, pc, callNo, tok, src, cur, ipfsAdder, dcancel,
                   adderRoot, ret, calls, sent, atCancel>>

\* ------------------------------------------------------------- setContext
\* variant: setContext has no `if a.ctx == nil` and takes every call's ctx
ContextUnset_Always == TRUE

\* line 73: `a.ctx == nil`
ContextUnset == a_ctx = 0

\* line 73: `if a.ctx == nil`
SetContextCheck(t) ==
    /\ panicked = "none"
    /\ pc[t] = "setContext"
    /\ pc' = [pc EXCEPT ![t] = IF ContextUnset THEN "setContext.ctx" ELSE "guard"]
    /\ UNCHANGED <<params, outGiven, a_ctx, a_cancel, ctxErr, ctxParent, output,
                   consumer, panicked, callNo, tok, src, cur, ipfsAdder, dcancel,
                   adderRoot, ret, calls, sent, atCancel>>

\* lines 74-75: context.WithCancel(ctx); a.ctx = ctxc.  A context derived
\* from a cancelled parent is cancelled from the start.
SetContextCtx(t) ==
    /\ panicked = "none"
    /\ pc[t] = "setContext.ctx"
    /\ a_ctx' = t
    /\ ctxErr' = [ctxErr EXCEPT ![t] = tok[t]]
    /\ ctxParent' = [ctxParent EXCEPT ![t] = callNo[t]]
    /\ atCancel' = IF tok[t] = NilErr THEN atCancel
                   ELSE [atCancel EXCEPT ![t] = CancelMark(t)]
    /\ pc' = [pc EXCEPT ![t] = "setContext.cancel"]
    /\ UNCHANGED <<params, outGiven, a_cancel, output, consumer, panicked, callNo,
                   tok, src, cur, ipfsAdder, dcancel, adderRoot, ret, calls, sent>>

\* line 76: a.cancel = cancel
SetContextCancel(t) ==
    /\ panicked = "none"
    /\ pc[t] = "setContext.cancel"
    /\ a_cancel' = t
    /\ pc' = [pc EXCEPT ![t] = "guard"]
    /\ UNCHANGED <<params, outGiven, a_ctx, ctxErr, ctxParent, output, consumer,
                   panicked, callNo, tok, src, cur, ipfsAdder, dcancel, adderRoot,
                   ret, calls, sent, atCancel>>

\* -------------------------------------------------------------- FromFiles
\* variant: the entry guard of line 99 is missing
GuardRejects_Never(err) == FALSE

\* line 99: `if a.ctx.Err() != nil`
GuardRejects(err) == err # NilErr

\* variant: the defers are registered before the entry guard, so a rejected
\* call runs them
GuardReturn_Deferred == "defer.close"

\* line 100: the rejected call returns with no defer registered
GuardReturn == "returned"

\* lines 99-101: the entry guard; a rejected call returns before any defer
\* is registered.
Guard(t) ==
    /\ panicked = "none"
    /\ pc[t] = "guard"
    /\ IF GuardRejects(CtxErrNow)
          THEN /\ ret' = [ret EXCEPT ![t] = [root |-> NilRoot, err |-> CtxErrNow]]
               /\ pc' = [pc EXCEPT ![t] = GuardReturn]
               /\ calls' = Answered([calls EXCEPT ![t].guard = "rejected"],
                                    t, "ctx.Err", CtxErrNow)
          ELSE /\ pc' = [pc EXCEPT ![t] = "defer"]
               /\ calls' = Answered([calls EXCEPT ![t].guard = "passed"],
                                    t, "ctx.Err", CtxErrNow)
               /\ UNCHANGED ret
    /\ UNCHANGED <<params, outGiven, a_ctx, a_cancel, ctxErr, ctxParent, output,
                   consumer, panicked, callNo, tok, src, cur, ipfsAdder, dcancel,
                   adderRoot, sent, atCancel>>

\* lines 103-104: `defer a.cancel()` evaluates a.cancel now and calls it at
\* return; `defer close(a.output)` runs before it.
Defer(t) ==
    /\ panicked = "none"
    /\ pc[t] = "defer"
    /\ dcancel' = [dcancel EXCEPT ![t] = a_cancel]
    /\ pc' = [pc EXCEPT ![t] = "NewAdder"]
    /\ UNCHANGED <<params, outGiven, a_ctx, a_cancel, ctxErr, ctxParent, output,
                   consumer, panicked, callNo, tok, src, cur, ipfsAdder, adderRoot,
                   ret, calls, sent, atCancel>>

\* lines 106-118: ipfsadd.NewAdder(a.ctx, a.dgs), then the builder's fields
\* are set from a.params and a.output.
NewAdder(t) ==
    /\ panicked = "none"
    /\ pc[t] = "NewAdder"
    /\ \E ok \in BOOLEAN :
         IF ok
            THEN /\ calls' = Answered(Called(t, "newAdder"), t, "NewAdder", NilErr)
                 /\ ipfsAdder' = [ipfsAdder EXCEPT ![t] =
                        [made |-> TRUE, ctx |-> a_ctx, Out |-> TRUE,
                         Progress |-> params.Progress, CidBuilder |-> <<>>,
                         added |-> <<>>]]
                 /\ pc' = [pc EXCEPT ![t] = "PrefixForCidVersion"]
                 /\ UNCHANGED ret
            ELSE /\ calls' = Answered(Called(t, "newAdder"), t, "NewAdder",
                                       "NewAdder error")
                 /\ Return(t, NilRoot, "NewAdder error")
                 /\ UNCHANGED ipfsAdder
    /\ UNCHANGED <<params, outGiven, a_ctx, a_cancel, ctxErr, ctxParent, output,
                   consumer, panicked, callNo, tok, src, cur, dcancel, adderRoot,
                   sent, atCancel>>

\* lines 121-124
CidVersion(t) ==
    /\ panicked = "none"
    /\ pc[t] = "PrefixForCidVersion"
    /\ IF PrefixForCidVersionOk(params.CidVersion)
          THEN /\ pc' = [pc EXCEPT ![t] = "HashFun"]
               /\ UNCHANGED ret
          ELSE Return(t, NilRoot, "bad CID Version")
    /\ UNCHANGED <<params, outGiven, a_ctx, a_cancel, ctxErr, ctxParent, output,
                   consumer, panicked, callNo, tok, src, cur, ipfsAdder, dcancel,
                   adderRoot, calls, sent, atCancel>>

\* line 126: the key looked up in multihash.Names
HashFunKey(name) == ToLower(name)

\* line 126: `hashFunCode, ok := multihash.Names[...]`; a missing key yields
\* the zero value and ok = false
HashFunCode(name) ==
    IF HashFunKey(name) \in DOMAIN Names THEN Names[HashFunKey(name)] ELSE 0

\* variant: the `!ok` check of line 127 is missing
HashFunOk_Always(name) == TRUE

\* line 127: `if !ok` does not hold
HashFunOk(name) == HashFunKey(name) \in DOMAIN Names

\* lines 126-132
HashFun(t) ==
    /\ panicked = "none"
    /\ pc[t] = "HashFun"
    /\ IF HashFunOk(params.HashFun)
          THEN /\ ipfsAdder' = [ipfsAdder EXCEPT ![t].CidBuilder =
                        [Version |-> params.CidVersion,
                         MhType |-> HashFunCode(params.HashFun),
                         MhLength |-> -1]]
               /\ pc' = [pc EXCEPT ![t] = "select"]
               /\ UNCHANGED ret
          ELSE /\ Return(t, NilRoot, "unrecognized hash function")
               /\ UNCHANGED ipfsAdder
    /\ UNCHANGED <<params, outGiven, a_ctx, a_cancel, ctxErr, ctxParent, output,
                   consumer, panicked, callNo, tok, src, cur, dcancel, adderRoot,
                   calls, sent, atCancel>>

\* variant: the loop has no `case <-a.ctx.Done()`
LoopObservesCancel_Never(err) == FALSE

\* line 136: `case <-a.ctx.Done()`
LoopObservesCancel(err) == err # NilErr

\* lines 135-138: the cancellation check at the top of every iteration
Select(t) ==
    /\ panicked = "none"
    /\ pc[t] = "select"
    /\ calls' = Answered(calls, t, "ctx.Done", CtxErrNow)
    /\ IF LoopObservesCancel(CtxErrNow)
          THEN Return(t, NilRoot, CtxErrNow)
          ELSE /\ pc' = [pc EXCEPT ![t] = "NextFile"]
               /\ UNCHANGED ret
    /\ UNCHANGED <<params, outGiven, a_ctx, a_cancel, ctxErr, ctxParent, output,
                   consumer, panicked, callNo, tok, src, cur, ipfsAdder, dcancel,
                   adderRoot, sent, atCancel>>

\* variant: the `if err != nil` of line 143 is missing
Disposition_Swallow(err) == IF err = EOF THEN "finalize" ELSE "continue"

\* lines 140-146: what the loop does with the error addFile returned
Disposition(err) ==
    IF err = EOF THEN "finalize"
    ELSE IF err # NilErr THEN "fail"
    ELSE "continue"

\* history: collaborator `from` handed err to addFile; c is calls with this
\* step's call counted
Noted(c, t, err, from) ==
    [c EXCEPT ![t].eofFrom = IF err = EOF THEN from ELSE @,
              ![t].failed = IF err \notin {NilErr, EOF} THEN err ELSE @]

\* addFile returned err to the loop
AddFileReturned(t, err, from, c) ==
    /\ calls' = Answered(Noted(c, t, err, from), t, from, err)
    /\ IF Disposition(err) = "finalize"
          THEN /\ pc' = [pc EXCEPT ![t] = "ipfsAdder.Finalize"]
               /\ UNCHANGED ret
       ELSE IF Disposition(err) = "fail"
          THEN Return(t, NilRoot, err)
       ELSE /\ pc' = [pc EXCEPT ![t] = "select"]
            /\ UNCHANGED ret

\* what fs.NextFile() can return: the next item while items remain, io.EOF
\* once they are exhausted, or an error
NextFileResults(s) ==
    (IF s.pos < s.len THEN {"file"} ELSE {EOF}) \cup {"NextFile error"}

\* lines 165-168: f, err := fs.NextFile()
NextFile(t) ==
    /\ panicked = "none"
    /\ pc[t] = "NextFile"
    /\ \E r \in NextFileResults(src[t]) :
         IF r = "file"
            THEN /\ src' = [src EXCEPT ![t].pos = @ + 1]
                 /\ cur' = [cur EXCEPT ![t] = src[t].pos + 1]
                 /\ pc' = [pc EXCEPT ![t] = "AddFile"]
                 /\ calls' = Answered(Called(t, "nextFile"), t, "NextFile", r)
                 /\ UNCHANGED ret
            ELSE /\ AddFileReturned(t, r, "NextFile", Called(t, "nextFile"))
                 /\ UNCHANGED <<src, cur>>
    /\ UNCHANGED <<params, outGiven, a_ctx, a_cancel, ctxErr, ctxParent, output,
                   consumer, panicked, callNo, tok, ipfsAdder, dcancel, adderRoot,
                   sent, atCancel>>

\* variant: addFile hands the source fs, not the file f, to AddFile
AddFileArg_Source(t) == 0

\* line 172: the argument of ipfsAdder.AddFile is the file NextFile returned
AddFileArg(t) == cur[t]

\* line 172: ipfsAdder.AddFile(f) takes the file
AddFile(t) ==
    /\ panicked = "none"
    /\ pc[t] = "AddFile"
    /\ calls' = Called(t, "addFile")
    /\ ipfsAdder' = [ipfsAdder EXCEPT ![t].added = Append(@, AddFileArg(t))]
    /\ pc' = [pc EXCEPT ![t] =
                IF ipfsAdder[t].Progress THEN "AddFile.send" ELSE "AddFile.return"]
    /\ UNCHANGED <<params, outGiven, a_ctx, a_cancel, ctxErr, ctxParent, output,
                   consumer, panicked, callNo, tok, src, cur, dcancel, adderRoot,
                   ret, sent, atCancel>>

\* the file the builder is working on
LastAdded(t) == ipfsAdder[t].added[Len(ipfsAdder[t].added)]

\* the builder places the file's event on ipfsAdder.Out: the send blocks
\* while the channel is full and panics on a closed channel
AddFileSend(t) ==
    /\ panicked = "none"
    /\ pc[t] = "AddFile.send"
    /\ output.closed \/ Len(output.buf) < output.cap
    /\ IF output.closed
          THEN Panic("send on closed channel")
          ELSE /\ output' = [output EXCEPT !.buf = Append(@, <<t, LastAdded(t)>>)]
               /\ sent' = Append(sent, <<t, LastAdded(t)>>)
               /\ pc' = [pc EXCEPT ![t] = "AddFile.return"]
               /\ UNCHANGED <<params, outGiven, a_ctx, a_cancel, ctxErr, ctxParent,
                              consumer, panicked, callNo, tok, src, cur, ipfsAdder,
                              dcancel, adderRoot, ret, calls, atCancel>>

\* what ipfsAdder.AddFile can return
AddFileResults == {NilErr, "AddFile error", EOF}

\* line 172: ipfsAdder.AddFile(f) returns, and addFile with it
AddFileReturn(t) ==
    /\ panicked = "none"
    /\ pc[t] = "AddFile.return"
    /\ \E r \in AddFileResults : AddFileReturned(t, r, "AddFile", calls)
    /\ UNCHANGED <<params, outGiven, a_ctx, a_cancel, ctxErr, ctxParent, output,
                   consumer, panicked, callNo, tok, src, cur, ipfsAdder, dcancel,
                   adderRoot, sent, atCancel>>

\* variant: the `if err != nil` of line 152 is missing
FinalizeErrReturned_Never(err) == FALSE

\* line 152: `if err != nil` after ipfsAdder.Finalize
FinalizeErrReturned(err) == err # NilErr

\* lines 151-154: adderRoot, err := ipfsAdder.Finalize(), which answers with
\* a root and a nil error, or with a nil root and an error
BuilderFinalize(t) ==
    /\ panicked = "none"
    /\ pc[t] = "ipfsAdder.Finalize"
    /\ \E r \in RawRoots \cup {"ipfsAdder.Finalize error"} :
         LET root == IF r \in RawRoots THEN r ELSE NilRoot
             err == IF r \in RawRoots THEN NilErr ELSE r
         IN  /\ calls' = Answered(Noted(Called(t, "bFinalize"), t, err,
                                         "ipfsAdder.Finalize"),
                                   t, "ipfsAdder.Finalize", r)
             /\ IF FinalizeErrReturned(err)
                   THEN /\ Return(t, NilRoot, err)
                        /\ UNCHANGED adderRoot
                   ELSE /\ adderRoot' = [adderRoot EXCEPT ![t] = root]
                        /\ pc' = [pc EXCEPT ![t] = "dgs.Finalize"]
                        /\ UNCHANGED ret
    /\ UNCHANGED <<params, outGiven, a_ctx, a_cancel, ctxErr, ctxParent, output,
                   consumer, panicked, callNo, tok, src, cur, ipfsAdder, dcancel,
                   sent, atCancel>>

\* line 155: the root handed to a.dgs.Finalize
FinalizeArg(t) == adderRoot[t]

\* variant: FromFiles returns the builder's root, not the cluster root
SuccessRoot_Raw(t, clusterRoot) == adderRoot[t]

\* line 161: the root returned on success
SuccessRoot(t, clusterRoot) == clusterRoot

\* lines 155-161: clusterRoot, err := a.dgs.Finalize(a.ctx, adderRoot.Cid())
ClusterFinalize(t) ==
    /\ panicked = "none"
    /\ pc[t] = "dgs.Finalize"
    /\ \E r \in ClusterRoots \cup {"dgs.Finalize error"} :
         IF r \in ClusterRoots
            THEN /\ Return(t, SuccessRoot(t, r), NilErr)
                 /\ calls' = [Answered(Called(t, "cFinalize"), t, "dgs.Finalize", r)
                                 EXCEPT ![t].cFinalizeArg = FinalizeArg(t),
                                        ![t].cFinalizeRet = r]
            ELSE /\ Return(t, NilRoot, r)
                 /\ calls' = [Answered(Noted(Called(t, "cFinalize"), t, r,
                                                "dgs.Finalize"),
                                          t, "dgs.Finalize", r)
                                 EXCEPT ![t].cFinalizeArg = FinalizeArg(t)]
    /\ UNCHANGED <<params, outGiven, a_ctx, a_cancel, ctxErr, ctxParent, output,
                   consumer, panicked, callNo, tok, src, cur, ipfsAdder, dcancel,
                   adderRoot, sent, atCancel>>

\* line 104, run at return: close(a.output); closing a closed channel panics
DeferClose(t) ==
    /\ panicked = "none"
    /\ pc[t] = "defer.close"
    /\ IF output.closed
          THEN Panic("close of closed channel")
          ELSE /\ output' = [output EXCEPT !.closed = TRUE]
               /\ pc' = [pc EXCEPT ![t] = "defer.cancel"]
               /\ UNCHANGED <<params, outGiven, a_ctx, a_cancel, ctxErr, ctxParent,
                              consumer, panicked, callNo, tok, src, cur, ipfsAdder,
                              dcancel, adderRoot, ret, calls, sent, atCancel>>

\* line 103, run at return: the captured a.cancel; calling a nil func panics
DeferCancel(t) ==
    /\ panicked = "none"
    /\ pc[t] = "defer.cancel"
    /\ IF dcancel[t] = 0
          THEN Panic("call of nil func")
          ELSE /\ IF ctxErr[dcancel[t]] = NilErr
                     THEN /\ ctxErr' = [ctxErr EXCEPT ![dcancel[t]] = Canceled]
                          /\ atCancel' = [atCancel EXCEPT ![dcancel[t]] =
                                             CancelMark(dcancel[t])]
                     ELSE UNCHANGED <<ctxErr, atCancel>>
               /\ pc' = [pc EXCEPT ![t] = "returned"]
               /\ UNCHANGED <<params, outGiven, a_ctx, a_cancel, ctxParent, output,
                              consumer, panicked, callNo, tok, src, cur, ipfsAdder,
                              dcancel, adderRoot, ret, calls, sent>>

\* --------------------------------------------------------- specifications
FromFiles(t) ==
    \/ SetContextCheck(t)
    \/ SetContextCtx(t)
    \/ SetContextCancel(t)
    \/ Guard(t)
    \/ Defer(t)
    \/ NewAdder(t)
    \/ CidVersion(t)
    \/ HashFun(t)
    \/ Select(t)
    \/ NextFile(t)
    \/ AddFile(t)
    \/ AddFileSend(t)
    \/ AddFileReturn(t)
    \/ BuilderFinalize(t)
    \/ ClusterFinalize(t)
    \/ DeferClose(t)
    \/ DeferCancel(t)

\* one caller thread: FromFiles calls follow one another
Next ==
    \/ \E t \in SeqThreads : StartCall(t) \/ CancelToken(t) \/ FromFiles(t)
    \/ ConsumerRecv
    \/ ListenerRecv

Spec == Init /\ [][Next]_vars

\* a caller thread of the concurrent specification invokes FromFiles a
\* bounded number of times, on short sources
StartConcCall(t) ==
    /\ callNo[t] < MaxConcCalls
    /\ StartCall(t)
    /\ src'[t].len <= MaxConcFiles

\* two caller threads share the instance; neither cancels its ctx argument
NextConc ==
    \/ \E t \in Threads : StartConcCall(t) \/ FromFiles(t)
    \/ ConsumerRecv
    \/ ListenerRecv

\* the concurrent specification starts from an instance whose params resolve
InitConc ==
    /\ Init
    /\ PrefixForCidVersionOk(params.CidVersion)
    /\ params.HashFun \in DOMAIN Names

SpecConc == InitConc /\ [][NextConc]_vars

\* one caller thread; the goroutines of the program are scheduled fairly and
\* the collaborators' calls return
SpecFair ==
    /\ Init
    /\ [][Next]_vars
    /\ \A t \in SeqThreads : WF_vars(FromFiles(t))
    /\ WF_vars(ConsumerRecv)

\* as SpecFair, and the listener on a caller-supplied channel keeps receiving
SpecDrained ==
    /\ SpecFair
    /\ WF_vars(ListenerRecv)

\* --------------------------------------------------------- reference run
\* FromFiles as a function of params and of what the token and the
\* collaborators answer, the output channel left out.  `at` is the answer
\* awaited, log the collaborator calls made so far, added the arguments of
\* AddFile, arg the argument of dgs.Finalize.
RefStart ==
    [at |-> "ctx.Err", log |-> <<>>, added |-> <<>>, files |-> 0,
     arg |-> NilRoot, ret |-> NoRet]

RefReturn(st, root, err) ==
    [st EXCEPT !.at = "returned", !.ret = [root |-> root, err |-> err]]

RefCall(st, at, f) == [st EXCEPT !.at = at, !.log = Append(@, f)]

\* lines 140-146: addFile returned v
RefAddFileReturned(st, v) ==
    IF Disposition(v) = "finalize" THEN RefCall(st, "ipfsAdder.Finalize", "bFinalize")
    ELSE IF Disposition(v) = "fail" THEN RefReturn(st, NilRoot, v)
    ELSE [st EXCEPT !.at = "ctx.Done"]

\* lines 99-161: what FromFiles does on the answer v it awaits
RefStep(p, st, v) ==
    CASE st.at = "ctx.Err" ->
           IF GuardRejects(v) THEN RefReturn(st, NilRoot, v)
           ELSE RefCall(st, "NewAdder", "newAdder")
      [] st.at = "NewAdder" ->
           IF v # NilErr THEN RefReturn(st, NilRoot, v)
           ELSE IF ~PrefixForCidVersionOk(p.CidVersion)
              THEN RefReturn(st, NilRoot, "bad CID Version")
           ELSE IF ~HashFunOk(p.HashFun)
              THEN RefReturn(st, NilRoot, "unrecognized hash function")
           ELSE [st EXCEPT !.at = "ctx.Done"]
      [] st.at = "ctx.Done" ->
           IF LoopObservesCancel(v) THEN RefReturn(st, NilRoot, v)
           ELSE RefCall(st, "NextFile", "nextFile")
      [] st.at = "NextFile" ->
           IF v = "file"
              THEN [RefCall(st, "AddFile", "addFile") EXCEPT
                       !.files = @ + 1, !.added = Append(@, st.files + 1)]
              ELSE RefAddFileReturned(st, v)
      [] st.at = "AddFile" -> RefAddFileReturned(st, v)
      [] st.at = "ipfsAdder.Finalize" ->
           IF FinalizeErrReturned(IF v \in RawRoots THEN NilErr ELSE v)
              THEN RefReturn(st, NilRoot, v)
              ELSE [RefCall(st, "dgs.Finalize", "cFinalize") EXCEPT !.arg = v]
      [] st.at = "dgs.Finalize" ->
           IF v \in ClusterRoots THEN RefReturn(st, v, NilErr)
           ELSE RefReturn(st, NilRoot, v)
      [] OTHER -> [st EXCEPT !.at = "stuck"]

RECURSIVE RefFrom(_, _, _)
RefFrom(p, st, answers) ==
    IF answers = <<>> THEN st
    ELSE IF answers[1][1] # st.at THEN [st EXCEPT !.at = "stuck"]
    ELSE RefFrom(p, RefStep(p, st, answers[1][2]), Tail(answers))

RefRun(p, answers) == RefFrom(p, RefStart, answers)

\* ----------------------------------------------------------------- claims
AtReturn(t) == pc[t] \in {"defer.close", "defer.cancel", "returned"}

NoWork(c) ==
    /\ c.newAdder = 0
    /\ c.nextFile = 0
    /\ c.addFile = 0
    /\ c.bFinalize = 0
    /\ c.cFinalize = 0

\* C1: every FromFiles call after the first on an instance is turned away at
\* the entry guard: it makes no call to the File Source, the builder or the
\* Cluster DAG Service, and returns a nil root with a cancellation error.
C1_SingleUse ==
    \A t \in SeqThreads :
        callNo[t] >= 2 =>
            /\ pc[t] \in {"setContext", "guard", "returned"}
            /\ NoWork(calls[t])
            /\ pc[t] = "returned" =>
                   /\ ret[t].root = NilRoot
                   /\ ret[t].err \in CancelKinds

\* a second call was rejected after a first call that added files and closed
\* the queue
C1_Witness ==
    /\ callNo[1] = 2
    /\ pc[1] = "returned"
    /\ calls[1].guard = "rejected"
    /\ ret[1] = [root |-> NilRoot, err |-> Canceled]
    /\ output.closed
    /\ Len(sent) >= 1

\* thread t invokes ipfsAdder.Finalize or dgs.Finalize in this step
FinalizeStep(t) ==
    \/ calls'[t].bFinalize > calls[t].bFinalize
    \/ calls'[t].cFinalize > calls[t].cFinalize

\* C2 as stated: no Finalize, of the builder or of the Cluster DAG Service,
\* is invoked while the governing token is cancelled.
C2_NoFinalizeAfterCancel ==
    [][\A t \in SeqThreads : FinalizeStep(t) => CtxErrNow = NilErr]_vars

\* C2 as amended: a Finalize is invoked with the token already cancelled only
\* when the cancellation arrived in that same run after the cancellation
\* check of an iteration had passed (while the item was pulled or added, while
\* the source reported end-of-sequence, or between the two Finalize calls);
\* a cancellation that arrives at any other time is followed by no Finalize.
C2_FinalizeOnlyAfterInFlightCancel ==
    [][\A t \in SeqThreads :
          (FinalizeStep(t) /\ CtxErrNow # NilErr) =>
              /\ atCancel[a_ctx].inFlight
              /\ atCancel[a_ctx].call = callNo[t]]_vars

\* the token was cancelled while the last file was in flight and the run went
\* on to finalize with the Cluster DAG Service and to return success
C2_Witness ==
    /\ callNo[1] = 1
    /\ pc[1] = "returned"
    /\ tok[1] \in CancelKinds
    /\ atCancel[1].inFlight
    /\ calls[1].addFile >= 1
    /\ calls[1].cFinalize = 1
    /\ ret[1].err = NilErr

\* C3: when the first FromFiles call has returned, by whatever path, the
\* internal token is cancelled and the output queue is closed.
C3_EveryExitCancelsAndCloses ==
    \A t \in SeqThreads :
        (callNo[t] = 1 /\ pc[t] = "returned") =>
            /\ CtxErrNow # NilErr
            /\ output.closed

\* C4: once NextFile or AddFile has failed on the k-th item with an error
\* other than io.EOF, the run is on its way out with a nil root and that
\* error, has pulled no further item, and has called neither Finalize.
C4_NoPartialFinalize ==
    \A t \in SeqThreads :
        calls[t].failed \in {"NextFile error", "AddFile error"} =>
            /\ AtReturn(t)
            /\ ret[t] = [root |-> NilRoot, err |-> calls[t].failed]
            /\ calls[t].bFinalize = 0
            /\ calls[t].cFinalize = 0
            /\ src[t].pos = calls[t].addFile
            /\ calls[t].nextFile =
                  calls[t].addFile + (IF calls[t].failed = "NextFile error" THEN 1 ELSE 0)

\* the source failed on its second item while more items remained
C4_Witness ==
    /\ pc[1] = "returned"
    /\ calls[1].failed = "NextFile error"
    /\ calls[1].nextFile = 2
    /\ calls[1].addFile = 1
    /\ src[1].pos < src[1].len
    /\ ret[1] = [root |-> NilRoot, err |-> "NextFile error"]

BadHashFun == ToLower(params.HashFun) \notin DOMAIN Names
BadCidVersion == params.CidVersion \notin {0, 1}

\* C5: with a HashFun that is not registered (case ignored) or an invalid
\* CidVersion, no call makes a NextFile, AddFile or Finalize call, every call
\* returns a nil root with an error, and a call that got as far as resolving
\* the configuration returns the configuration error.
C5_FailFastConfig ==
    (BadHashFun \/ BadCidVersion) =>
        \A t \in SeqThreads :
            /\ calls[t].nextFile = 0
            /\ calls[t].addFile = 0
            /\ calls[t].bFinalize = 0
            /\ calls[t].cFinalize = 0
            /\ pc[t] \notin {"select", "NextFile", "AddFile", "AddFile.send",
                             "AddFile.return", "ipfsAdder.Finalize", "dgs.Finalize"}
            /\ AtReturn(t) =>
                   /\ ret[t].root = NilRoot
                   /\ ret[t].err # NilErr
                   /\ ipfsAdder[t].made =>
                          ret[t].err = IF BadCidVersion THEN "bad CID Version"
                                       ELSE "unrecognized hash function"

\* an unregistered hash function with a valid CidVersion was turned down
C5_Witness ==
    /\ params.HashFun = <<"s", "h", "a", "9">>
    /\ params.CidVersion = 1
    /\ pc[1] = "returned"
    /\ callNo[1] = 1
    /\ ipfsAdder[1].made
    /\ ret[1] = [root |-> NilRoot, err |-> "unrecognized hash function"]

\* C6: dgs.Finalize is called at most once per run and once in a run that
\* returns success, and only after ipfsAdder.Finalize returned a root, after
\* the File Source reported end-of-sequence, and with that root.
C6_ClusterFinalizeOnceAfterSourceEnd ==
    \A t \in SeqThreads :
        /\ calls[t].cFinalize <= 1
        /\ (AtReturn(t) /\ ret[t].err = NilErr) => calls[t].cFinalize = 1
        /\ calls[t].cFinalize = 1 =>
              /\ calls[t].bFinalize = 1
              /\ adderRoot[t] \in RawRoots
              /\ calls[t].cFinalizeArg = adderRoot[t]
              /\ calls[t].eofFrom = "NextFile"
              /\ src[t].pos = src[t].len

\* C7: the builder has been handed exactly the files pulled so far, in the
\* source's order and once each; a pulled file is handed over before the next
\* pull; the events placed on the queue follow the order of the adds, and the
\* queue holds the latest of them in that order.
C7_Ordering ==
    \A t \in SeqThreads :
        /\ ipfsAdder[t].added = [i \in 1..calls[t].addFile |-> i]
        /\ src[t].pos = calls[t].addFile + (IF pc[t] = "AddFile" THEN 1 ELSE 0)
        /\ sent = [i \in 1..Len(sent) |-> <<t, i>>]
        /\ callNo[t] = 1 =>
              Len(sent) = IF ipfsAdder[t].Progress
                             THEN calls[t].addFile
                                    - (IF pc[t] = "AddFile.send" THEN 1 ELSE 0)
                             ELSE 0
        /\ Len(output.buf) <= Len(sent)
        /\ output.buf = SubSeq(sent, Len(sent) - Len(output.buf) + 1, Len(sent))

\* a run with progress enabled added a full source and sent an event per file
C7_Witness ==
    /\ pc[1] = "returned"
    /\ callNo[1] = 1
    /\ params.Progress
    /\ src[1].len = MaxFiles
    /\ Len(ipfsAdder[1].added) = MaxFiles
    /\ Len(sent) = MaxFiles
    /\ ret[1].err = NilErr

\* C8: a call returns either the root dgs.Finalize returned, untouched, with
\* a nil error, or a nil root with a non-nil error; the error of a failed
\* collaborator is returned as it is.
C8_AllOrNothing ==
    \A t \in SeqThreads :
        AtReturn(t) =>
            /\ \/ /\ ret[t].err = NilErr
                  /\ ret[t].root \in ClusterRoots
                  /\ calls[t].cFinalize = 1
                  /\ ret[t].root = calls[t].cFinalizeRet
               \/ /\ ret[t].err # NilErr
                  /\ ret[t].root = NilRoot
            /\ calls[t].failed # NilErr => ret[t].err = calls[t].failed

\* a successful run returned the cluster root, which differs from the raw one
C8_Witness ==
    /\ pc[1] = "returned"
    /\ adderRoot[1] = "rawA"
    /\ calls[1].cFinalizeRet = "clusterB"
    /\ ret[1] = [root |-> "clusterB", err |-> NilErr]

\* C9: on an instance built without an output queue, every FromFiles call
\* that is in progress eventually returns, whatever the length of the source
\* and with an event sent for every file, the goroutines being scheduled
\* fairly.
C9_ReturnsWithoutListener ==
    \A t \in SeqThreads : (~outGiven /\ InCall(t)) ~> ~InCall(t)

\* a run without listener added more files than the queue holds, sent an
\* event for each, and returned success
C9_Witness ==
    /\ ~outGiven
    /\ params.Progress
    /\ pc[1] = "returned"
    /\ src[1].len > output.cap
    /\ Len(sent) = src[1].len
    /\ ret[1].root \in ClusterRoots

\* C10: of two concurrent FromFiles calls on one instance at most one passes
\* the entry guard, and the output queue is not closed twice.
C10_OneCallPassesGuard ==
    /\ Cardinality({t \in Threads : calls[t].guard = "passed"}) <= 1
    /\ panicked # "close of closed channel"

\* the counters of the collaborator calls of t's current call
Work(c) == <<c.newAdder, c.nextFile, c.addFile, c.bFinalize, c.cFinalize>>

\* C12: a loop-top check that finds the token cancelled makes the call return
\* the token's error with a nil root, and from then on the call pulls no
\* item and calls neither AddFile nor a Finalize; a cancellation error is
\* produced only at that check or at the entry guard, so a NextFile or
\* AddFile in progress when the token is cancelled runs to completion.
C12_LoopTopCheck ==
    [][\A t \in SeqThreads :
          /\ (pc[t] = "select" /\ pc'[t] # "select" /\ CtxErrNow # NilErr) =>
                /\ pc'[t] = "defer.close"
                /\ ret'[t] = [root |-> NilRoot, err |-> CtxErrNow]
                /\ Work(calls'[t]) = Work(calls[t])
          /\ (pc[t] = "select" /\ pc'[t] # "select" /\ CtxErrNow = NilErr) =>
                pc'[t] = "NextFile"
          /\ (AtReturn(t) /\ AtReturn(t)') => Work(calls'[t]) = Work(calls[t])
          /\ (pc[t] \in InFlight /\ pc'[t] # pc[t] /\ CtxErrNow # NilErr) =>
                ret'[t].err \notin CancelKinds]_vars

\* the token was cancelled while a file was in flight; its AddFile completed
\* and the next loop-top check returned the cancellation error, with items
\* left in the source and nothing finalized
C12_Witness ==
    /\ callNo[1] = 1
    /\ pc[1] = "returned"
    /\ atCancel[1].inFlight
    /\ calls[1].addFile >= 1
    /\ calls[1].nextFile = calls[1].addFile
    /\ calls[1].failed = NilErr
    /\ src[1].pos < src[1].len
    /\ calls[1].bFinalize = 0
    /\ calls[1].cFinalize = 0
    /\ ret[1] = [root |-> NilRoot, err |-> tok[1]]
    /\ tok[1] \in CancelKinds

\* C13: ipfsAdder.Finalize is called only once the File Source is exhausted:
\* when it is called, every item of the source has been pulled and handed to
\* AddFile (also when it was AddFile that reported io.EOF).
C13_FinalizeOnlyAfterSourceExhausted ==
    \A t \in SeqThreads :
        calls[t].bFinalize >= 1 =>
            /\ src[t].pos = src[t].len
            /\ calls[t].addFile = src[t].len

\* C14: the internal token is derived from the ctx of the first call and is
\* never replaced; once set it is never unset, once cancelled it stays
\* cancelled with the same error; a later call is rejected whatever the state
\* of its own ctx, and cancelling that ctx changes nothing of the instance.
C14_FirstTokenOnly ==
    /\ [](\A t \in SeqThreads :
             /\ a_ctx # 0 => ctxParent[a_ctx] = 1
             /\ (callNo[t] >= 2 /\ pc[t] = "returned") => calls[t].guard = "rejected")
    /\ [][/\ a_ctx # 0 => (a_ctx' = a_ctx /\ ctxParent' = ctxParent)
          /\ CtxErrNow # NilErr => CtxErrNow' = CtxErrNow
          /\ \A t \in SeqThreads :
                (callNo[t] >= 2 /\ tok'[t] # tok[t] /\ callNo'[t] = callNo[t]) =>
                    UNCHANGED <<a_ctx, a_cancel, ctxErr, ctxParent, output,
                                consumer, pc, ret, calls>>]_vars

\* a second call, whose own ctx timed out, was rejected with the error of the
\* first call's token, which the first run had cancelled at its return
C14_Witness ==
    /\ callNo[1] = 2
    /\ pc[1] = "returned"
    /\ tok[1] = DeadlineExceeded
    /\ a_ctx = 1
    /\ ctxParent[1] = 1
    /\ ctxErr[1] = Canceled
    /\ ret[1] = [root |-> NilRoot, err |-> Canceled]

\* C15: a call that finds the internal token already cancelled is rejected
\* without changing the instance: from its entry to its return it leaves the
\* token, the cancel function and the output queue as they are, sends
\* nothing, and pulls nothing from its File Source; all it does is return.
C15_RejectedCallChangesNothing ==
    /\ [](\A t \in SeqThreads :
             calls[t].guard = "rejected" =>
                 /\ NoWork(calls[t])
                 /\ src[t].pos = 0
                 /\ dcancel[t] = 0
                 /\ pc[t] = "returned")
    /\ [][\A t \in SeqThreads :
             (pc[t] \in {"setContext", "guard"} /\ pc'[t] # pc[t]
                /\ a_ctx # 0 /\ CtxErrNow # NilErr) =>
                 /\ pc'[t] \in {"guard", "returned"}
                 /\ UNCHANGED <<a_ctx, a_cancel, ctxErr, ctxParent, output,
                                consumer, sent, src, atCancel, panicked>>]_vars

\* a second call given a source with items was rejected; the source is
\* untouched and the instance is as the first run left it
C15_Witness ==
    /\ callNo[1] = 2
    /\ pc[1] = "returned"
    /\ calls[1].guard = "rejected"
    /\ src[1] = [len |-> MaxFiles, pos |-> 0]
    /\ tok[1] = NilErr
    /\ output.closed
    /\ ctxErr[a_ctx] \in CancelKinds

\* C16: an error of ipfsAdder.Finalize is returned as it is with a nil root
\* and a.dgs.Finalize is not called; an error of a.dgs.Finalize is returned
\* as it is with a nil root; neither Finalize is called a second time.
C16_FinalizeErrors ==
    \A t \in SeqThreads :
        /\ calls[t].bFinalize <= 1
        /\ calls[t].cFinalize <= 1
        /\ calls[t].failed = "ipfsAdder.Finalize error" =>
              /\ AtReturn(t)
              /\ ret[t] = [root |-> NilRoot, err |-> "ipfsAdder.Finalize error"]
              /\ calls[t].bFinalize = 1
              /\ calls[t].cFinalize = 0
        /\ calls[t].failed = "dgs.Finalize error" =>
              /\ AtReturn(t)
              /\ ret[t] = [root |-> NilRoot, err |-> "dgs.Finalize error"]
              /\ calls[t].bFinalize = 1
              /\ calls[t].cFinalize = 1

\* the source was exhausted after two files and ipfsAdder.Finalize failed
C16_Witness ==
    /\ pc[1] = "returned"
    /\ calls[1].eofFrom = "NextFile"
    /\ calls[1].addFile = 2
    /\ calls[1].failed = "ipfsAdder.Finalize error"
    /\ calls[1].cFinalize = 0
    /\ ret[1] = [root |-> NilRoot, err |-> "ipfsAdder.Finalize error"]

\* C17: the instance has a draining goroutine exactly when New was given no
\* output queue; it only ever takes the oldest event off the queue, it ends
\* only when the queue is closed and empty and stays ended, and once the
\* queue is closed it eventually ends, the goroutines being scheduled fairly.
C17_ConsumerLifecycle ==
    /\ [](consumer = "none" <=> outGiven)
    /\ [](consumer = "done" => (output.closed /\ output.buf = <<>>))
    /\ [][/\ consumer' # consumer =>
                /\ consumer = "running"
                /\ consumer' = "done"
                /\ output.closed
                /\ output.buf = <<>>
          /\ (~outGiven /\ Len(output'.buf) < Len(output.buf)) =>
                /\ consumer = "running"
                /\ output'.buf = Tail(output.buf)]_vars
    /\ (~outGiven /\ output.closed) ~> (consumer = "done")

\* the goroutine ended after a run that sent more events than the queue holds
C17_Witness ==
    /\ ~outGiven
    /\ consumer = "done"
    /\ output.closed
    /\ Len(sent) > output.cap
    /\ pc[1] = "returned"

\* C18 as stated: when FromFiles returns the error of an unknown HashFun to
\* its caller, the output queue has not been closed.
C18_ConfigErrorBeforeClose ==
    \A t \in SeqThreads :
        (pc[t] = "returned" /\ ret[t].err = "unrecognized hash function") =>
            ~output.closed

\* C18 as amended: the error of an unknown HashFun is produced before any
\* file is read and before anything is sent, with the queue still open; the
\* deferred close then runs, so that the queue is closed and the internal
\* token cancelled when FromFiles returns the error to its caller.
C18_ConfigErrorThenClose ==
    \A t \in SeqThreads :
        ret[t].err = "unrecognized hash function" =>
            /\ calls[t].nextFile = 0
            /\ calls[t].addFile = 0
            /\ sent = <<>>
            /\ AtReturn(t)
            /\ pc[t] = "defer.close" => ~output.closed
            /\ pc[t] = "returned" => (output.closed /\ CtxErrNow # NilErr)

\* the error of an unknown HashFun was returned with the queue closed
C18_Witness ==
    /\ callNo[1] = 1
    /\ pc[1] = "returned"
    /\ BadHashFun
    /\ ret[1].err = "unrecognized hash function"
    /\ output.closed
    /\ calls[1].nextFile = 0

\* the positions of a call from which an event may be sent or the queue closed
MaySendOrClose == {"AddFile", "AddFile.send", "ipfsAdder.Finalize", "defer.close"}

\* C19: over any sequence of sequential calls on one instance no runtime
\* panic happens; once the output queue is closed it stays closed, no call
\* stands at a builder call that may send or at the deferred close, and no
\* further event is sent.
C19_ChannelSafety ==
    /\ [](panicked = "none")
    /\ [](output.closed => \A t \in SeqThreads : pc[t] \notin MaySendOrClose)
    /\ [][output.closed =>
              /\ output'.closed
              /\ sent' = sent
              /\ Len(output'.buf) <= Len(output.buf)]_vars

\* after a call that sent events and closed the queue, a later call went
\* through and returned without a panic, the queue holding what was sent
C19_Witness ==
    /\ callNo[1] = MaxCalls
    /\ pc[1] = "returned"
    /\ panicked = "none"
    /\ output.closed
    /\ outGiven
    /\ Len(sent) >= 1
    /\ Len(output.buf) >= 1

IsPrefix(s, r) == Len(s) <= Len(r) /\ \A i \in 1..Len(s) : s[i] = r[i]

\* C11: the pair a call returns and the sequence of its calls to the File
\* Source, the builder and the Cluster DAG Service are what the reference
\* run, which has no output queue, gives for the same params and the same
\* answers of the token and the collaborators, whether the instance was built
\* with a caller's queue or with none; and with the queue drained every call
\* that was started returns, so that the whole sequence is made in both cases.
C11_ListenerIndependence ==
    /\ [](\A t \in SeqThreads :
            LET ref == RefRun(params, calls[t].answers)
            IN  /\ ref.at # "stuck"
                /\ IsPrefix(calls[t].log, ref.log)
                /\ Len(ref.log) <= Len(calls[t].log) + 1
                /\ AtReturn(t) =>
                      /\ ref.at = "returned"
                      /\ ret[t] = ref.ret
                      /\ calls[t].log = ref.log
                      /\ ipfsAdder[t].added = ref.added
                      /\ calls[t].cFinalizeArg = ref.arg)
    /\ \A t \in SeqThreads : InCall(t) ~> (pc[t] = "returned")

\* a run on a caller's queue smaller than the number of events returned the
\* cluster root after the listener took the events
C11_Witness ==
    /\ outGiven
    /\ callNo[1] = 1
    /\ pc[1] = "returned"
    /\ params.Progress
    /\ Len(sent) > output.cap
    /\ ret[1].root \in ClusterRoots
    /\ RefRun(params, calls[1].answers).ret = ret[1]
    /\ Len(calls[1].log) >= 5

====
